---- MODULE Spec2Model ----
(***************************************************************************)
(* A model of the `config` crate: the path-addressable configuration tree  *)
(* generated by the config! macro (src/lib.rs) and the observer cell       *)
(* Observe<T, C> (src/observer.rs).                                        *)
(***************************************************************************)
EXTENDS Integers, Sequences, FiniteSets, TLC

VARIABLES
    config,      \* the configuration tree: a value of struct Single
    req,         \* the caller's current request: a path and a payload
    call,        \* the last check_set / set call with the request and its Result
    before,      \* the tree as it was when the last call started
    embedded,    \* TRUE: the cell is a field of its context (Main { obs, .. })
                 \* FALSE: the cell and its context are separate objects
    value,       \* Observe::value
    subscribers, \* Observe::subscribers, function names in registration order
    ctx,         \* the rest of the context the subscribers are given
    stack,       \* the dependency_set calls in progress, innermost last
    nops,        \* calls made so far by the owner of the cell
    last,        \* the owner's last (or current) call
    pre,         \* the cell and the context when that call started
    fired,       \* the subscriber invocations made since it started, in order
    streak,      \* how many times in a row the owner has made that same call
    base,        \* the cell's value when the streak started
    since,       \* invocations of each function since the streak started
    stable       \* the functions registered when each call of the streak started

treeVars == <<config, req, call, before>>
cellVars == <<embedded, value, subscribers, ctx, stack>>
histVars == <<nops, last, pre, fired, streak, base, since, stable>>
obsVars  == <<cellVars, histVars>>
vars     == <<treeVars, obsVars>>

(***************************************************************************)
(* Bounds of the model.                                                    *)
(***************************************************************************)
MaxPathLen == 2
MaxValue == 2
MaxOps == 4
MaxDepth == 3

(***************************************************************************)
(* Strings are sequences of one-character strings, so that parsing is      *)
(* computed over the characters of a payload.  The payloads of the tests   *)
(* ("0.3", "string", "3") and one literal for each other leaf type.        *)
(***************************************************************************)
P_03     == <<"0", ".", "3">>
P_string == <<"s", "t", "r", "i", "n", "g">>
P_3      == <<"3">>
P_qab    == <<"\"", "a", "b", "\"">>
P_pair   == <<"(", "3", ",", "t", "r", "u", "e", ")">>

Payloads == {P_03, P_string, P_3, P_qab, P_pair}

Digit == [c \in {"0", "1", "2", "3", "4", "5", "6", "7", "8", "9"} |->
            CASE c = "0" -> 0 [] c = "1" -> 1 [] c = "2" -> 2 [] c = "3" -> 3
              [] c = "4" -> 4 [] c = "5" -> 5 [] c = "6" -> 6 [] c = "7" -> 7
              [] c = "8" -> 8 [] c = "9" -> 9]

IsDigit(c) == c \in DOMAIN Digit

ParseErr == [ok |-> FALSE]
ParseOk(v) == [ok |-> TRUE, val |-> v]

RECURSIVE DigitsValue(_)
DigitsValue(s) ==
    IF s = <<>> THEN 0
    ELSE 10 * DigitsValue(SubSeq(s, 1, Len(s) - 1)) + Digit[s[Len(s)]]

AllDigits(s) == \A i \in 1..Len(s) : IsDigit(s[i])

I32Max == 2147483647
I32Min == -I32Max - 1

\* ron::de::from_str::<i32>: an optional sign, one or more decimal digits and
\* nothing after them; a number outside the type's range is an error.
ParseI32(s) ==
    LET signed == s # <<>> /\ s[1] \in {"-", "+"}
        digits == IF signed THEN Tail(s) ELSE s
        mag    == DigitsValue(digits)
        v      == IF signed /\ s[1] = "-" THEN -mag ELSE mag
    IN  IF digits # <<>> /\ AllDigits(digits) /\ v >= I32Min /\ v <= I32Max
        THEN ParseOk(v)
        ELSE ParseErr

\* A decimal m * 10^-e with no trailing zero in the fraction.
RECURSIVE Normal(_, _)
Normal(m, e) ==
    IF e > 0 /\ m % 10 = 0 THEN Normal(m \div 10, e - 1) ELSE [m |-> m, e |-> e]

\* ron::de::from_str::<f32>: an optional sign and decimal digits with at most
\* one point among them (exponents and inf/NaN are left out of the alphabet).
ParseF32(s) ==
    LET signed == s # <<>> /\ s[1] \in {"-", "+"}
        body   == IF signed THEN Tail(s) ELSE s
        dots   == {i \in 1..Len(body) : body[i] = "."}
        dot    == IF dots = {} THEN Len(body) + 1 ELSE CHOOSE i \in dots : TRUE
        int    == SubSeq(body, 1, dot - 1)
        frac   == SubSeq(body, dot + 1, Len(body))
        mag    == DigitsValue(int \o frac)
        n      == Normal(mag, Len(frac))
    IN  IF Cardinality(dots) <= 1 /\ AllDigits(int \o frac) /\ int \o frac # <<>>
        THEN ParseOk([m |-> IF signed /\ s[1] = "-" THEN -n.m ELSE n.m, e |-> n.e])
        ELSE ParseErr

\* ron::de::from_str::<bool>
ParseBool(s) ==
    IF s = <<"t", "r", "u", "e">> THEN ParseOk(TRUE)
    ELSE IF s = <<"f", "a", "l", "s", "e">> THEN ParseOk(FALSE)
    ELSE ParseErr

\* ron::de::from_str::<String>: a literal between double quotes; the value is
\* the text between them (escapes are left out of the alphabet).
ParseString(s) ==
    LET inner == SubSeq(s, 2, Len(s) - 1)
    IN  IF Len(s) >= 2 /\ s[1] = "\"" /\ s[Len(s)] = "\""
           /\ \A i \in 1..Len(inner) : inner[i] # "\""
        THEN ParseOk(inner)
        ELSE ParseErr

\* ron::de::from_str::<(i32, bool)>: "(" X "," Y ")" parsed as one literal.
ParseTuple(s) ==
    LET inner  == SubSeq(s, 2, Len(s) - 1)
        commas == {i \in 1..Len(inner) : inner[i] = ","}
        c      == IF commas = {} THEN 0 ELSE CHOOSE i \in commas : \A j \in commas : i <= j
        x      == ParseI32(SubSeq(inner, 1, c - 1))
        rest   == SubSeq(inner, c + 1, Len(inner))
        ytxt   == IF rest # <<>> /\ rest[Len(rest)] = ","
                  THEN SubSeq(rest, 1, Len(rest) - 1) ELSE rest
        y      == ParseBool(ytxt)
    IN  IF Len(s) >= 2 /\ s[1] = "(" /\ s[Len(s)] = ")" /\ c > 0 /\ x.ok /\ y.ok
        THEN ParseOk(<<x.val, y.val>>)
        ELSE ParseErr

BasicTypes == {"f32", "i32"}
TupleType  == "(i32, bool)"
LeafTypes  == BasicTypes \cup {"String", TupleType}

\* ron::de::from_str::<Self>(payload) for the leaf type ty
FromStr(ty, payload) ==
    CASE ty = "i32"     -> ParseI32(payload)
      [] ty = "f32"     -> ParseF32(payload)
      [] ty = "String"  -> ParseString(payload)
      [] ty = TupleType -> ParseTuple(payload)

(***************************************************************************)
(* The tree of tests::single_entry_get_paths, with one more leaf for each  *)
(* other ConfigType implementation:                                        *)
(*   config![ struct Single { entry: f32, name: String, pair: (i32, bool), *)
(*                            kek: TopKek { nice: i32 } } ]                *)
(***************************************************************************)
Field(x, y) == [x |-> x, y |-> y]

Fields(name) ==
    CASE name = "Single" -> << Field("entry", "f32"), Field("name", "String"),
                               Field("pair", TupleType),
                               Field("kek", "TopKek") >>
      [] name = "TopKek" -> << Field("nice", "i32") >>

Structs == {"Single", "TopKek"}

\* Single::default()
Default ==
    [entry |-> [m |-> 0, e |-> 0], name |-> <<>>,
     pair |-> <<0, FALSE>>, kek |-> [nice |-> 0]]

Ok == "Ok"
PathTooLong == "PathTooLong"
PathTooShort == "PathTooShort"
PathNotFound == "PathNotFound"
ValueParseError == "ValueParseError"
Errors == {PathTooLong, PathTooShort, PathNotFound, ValueParseError}

\* what a set returns: its Result and the node it leaves behind
Ret(result, node) == [result |-> result, node |-> node]

\* basic_impl!: check_set
BasicCheckSet(ty, path, payload) ==
    IF path = <<>>
    THEN IF FromStr(ty, payload).ok THEN Ok ELSE ValueParseError
    ELSE PathTooLong

\* a set that stores the type's default when the payload does not parse
BasicSetClobber(ty, self, path, payload) ==
    IF path # <<>> THEN Ret(PathTooLong, self)
    ELSE LET r == FromStr(ty, payload)
         IN  IF r.ok THEN Ret(Ok, r.val)
             ELSE Ret(ValueParseError, IF ty = "f32" THEN [m |-> 0, e |-> 0] ELSE 0)

\* basic_impl!: set
BasicSet(ty, self, path, payload) ==
    IF path # <<>> THEN Ret(PathTooLong, self)
    ELSE LET r == FromStr(ty, payload)
         IN  IF r.ok THEN Ret(Ok, r.val) ELSE Ret(ValueParseError, self)

\* impl ConfigType for String: check_set
StringCheckSet(path, payload) ==
    IF path = <<>> THEN Ok ELSE PathTooLong

\* impl ConfigType for String: set
StringSet(self, path, payload) ==
    IF path # <<>> THEN Ret(PathTooLong, self)
    ELSE LET r == FromStr("String", payload)
         IN  IF r.ok THEN Ret(Ok, r.val) ELSE Ret(ValueParseError, self)

\* impl ConfigType for (X, Y): check_set
TupleCheckSet(path, payload) ==
    IF path # <<>> THEN PathTooLong
    ELSE IF FromStr(TupleType, payload).ok THEN Ok ELSE ValueParseError

\* a set that decodes the payload before it looks at the path
TupleSetParseFirst(self, path, payload) ==
    LET r == FromStr(TupleType, payload)
    IN  IF ~r.ok THEN Ret(ValueParseError, self)
        ELSE IF path # <<>> THEN Ret(PathTooLong, self)
        ELSE Ret(Ok, r.val)

\* impl ConfigType for (X, Y): set
TupleSet(self, path, payload) ==
    IF path # <<>> THEN Ret(PathTooLong, self)
    ELSE LET r == FromStr(TupleType, payload)
         IN  IF r.ok THEN Ret(Ok, r.val) ELSE Ret(ValueParseError, self)

\* the first arm of the generated match whose field name is the segment, 0 if none
MatchArm(name, item) ==
    LET hits == {i \in 1..Len(Fields(name)) : Fields(name)[i].x = item}
    IN  IF hits = {} THEN 0 ELSE CHOOSE i \in hits : \A j \in hits : i <= j

RECURSIVE CheckSet(_, _, _)
RECURSIVE StructCheckSet(_, _, _)
\* a check_set that accepts a path ending at a struct
StructCheckSetEmptyOk(name, path, payload) ==
    IF path = <<>> THEN Ok
    ELSE LET arm == MatchArm(name, Head(path))
         IN  IF arm = 0 THEN PathNotFound
             ELSE CheckSet(Fields(name)[arm].y, Tail(path), payload)

\* config! @make_struct: check_set
StructCheckSet(name, path, payload) ==
    IF path = <<>> THEN PathTooShort
    ELSE LET arm == MatchArm(name, Head(path))
         IN  IF arm = 0 THEN PathNotFound
             ELSE CheckSet(Fields(name)[arm].y, Tail(path), payload)

\* <$y>::check_set: the implementation of the trait for the type ty
CheckSet(ty, path, payload) ==
    CASE ty \in BasicTypes -> BasicCheckSet(ty, path, payload)
      [] ty = "String"     -> StringCheckSet(path, payload)
      [] ty = TupleType    -> TupleCheckSet(path, payload)
      [] ty \in Structs    -> StructCheckSet(ty, path, payload)

RECURSIVE Set(_, _, _, _)
RECURSIVE StructSet(_, _, _, _)
\* a set that ignores a segment no arm matches
StructSetSkipsUnknown(name, self, path, payload) ==
    IF path = <<>> THEN Ret(PathTooShort, self)
    ELSE LET arm == MatchArm(name, Head(path))
         IN  IF arm = 0 THEN Ret(Ok, self)
             ELSE LET f == Fields(name)[arm]
                      r == Set(f.y, self[f.x], Tail(path), payload)
                  IN  Ret(r.result, [self EXCEPT ![f.x] = r.node])

\* a set that rebuilds the struct around the field it was sent to
StructSetRebuilds(name, self, path, payload) ==
    IF path = <<>> THEN Ret(PathTooShort, self)
    ELSE LET arm == MatchArm(name, Head(path))
         IN  IF arm = 0 THEN Ret(PathNotFound, self)
             ELSE LET f == Fields(name)[arm]
                      r == Set(f.y, self[f.x], Tail(path), payload)
                      fresh == IF name = "Single" THEN Default ELSE Default.kek
                  IN  IF r.result = Ok
                      THEN Ret(Ok, [fresh EXCEPT ![f.x] = r.node])
                      ELSE Ret(r.result, self)

\* config! @make_struct: set
StructSet(name, self, path, payload) ==
    IF path = <<>> THEN Ret(PathTooShort, self)
    ELSE LET arm == MatchArm(name, Head(path))
         IN  IF arm = 0 THEN Ret(PathNotFound, self)
             ELSE LET f == Fields(name)[arm]
                      r == Set(f.y, self[f.x], Tail(path), payload)
                  IN  Ret(r.result, [self EXCEPT ![f.x] = r.node])

\* self.$x.set: the implementation of the trait for the type ty
Set(ty, self, path, payload) ==
    CASE ty \in BasicTypes -> BasicSet(ty, self, path, payload)
      [] ty = "String"     -> StringSet(self, path, payload)
      [] ty = TupleType    -> TupleSet(self, path, payload)
      [] ty \in Structs    -> StructSet(ty, self, path, payload)

(***************************************************************************)
(* The caller of the tree.  A request is a path of at most MaxPathLen      *)
(* segments, each a declared field name or a name no struct declares, and  *)
(* a payload.  The caller builds a request, calls check_set and set with   *)
(* it any number of times in any order, and drops it.                      *)
(***************************************************************************)
Segments == {"entry", "name", "pair", "kek", "nice", "nope"}

RECURSIVE PathsOfLen(_)
PathsOfLen(n) ==
    IF n = 0 THEN {<<>>}
    ELSE {<<s>> \o p : s \in Segments, p \in PathsOfLen(n - 1)}

Paths == UNION {PathsOfLen(n) : n \in 0..MaxPathLen}

NoReq  == [path |-> <<"-">>, payload |-> <<>>]
NoCall == [op |-> "none", result |-> "none"]

(***************************************************************************)
(* Observe<T, C> with T = i32.  Subscribers are named functions over the   *)
(* context.  Two of them are the subscribers of the tests and need the     *)
(* context only; the others reach the cell through the context, which a    *)
(* subscriber can do only when the cell is a field of the context.         *)
(*   inc     |ctx, _| ctx.other += 1                                       *)
(*   store   |ctx, value| ctx.seen = value                                 *)
(*   adder   |ctx, _| ctx.obs.subscribe(inc)                               *)
(*   remover |ctx, _| ctx.obs.unsubscribe(inc)                             *)
(*   reset   |ctx, value| if value != 0 {                                  *)
(*               Observe::dependency_set(ctx, |x| &mut x.obs, 0) }         *)
(*   echo    |ctx, value|                                                  *)
(*               Observe::dependency_compare_and_set(ctx, |x| &mut x.obs,  *)
(*                                                   value)                *)
(* A subscriber that calls dependency_set starts a call inside the call    *)
(* that invoked it; the model follows such calls MaxDepth deep.            *)
(***************************************************************************)
Values == 0..MaxValue

SimpleFns == {"inc", "store"}
CellFns   == {"adder", "remover", "reset", "echo"}
Fns       == SimpleFns \cup CellFns

\* Observe::find_subscriber: the index of the first entry equal to function,
\* 0 for None
FindSubscriber(subs, function) ==
    LET hits == {i \in 1..Len(subs) : subs[i] = function}
    IN  IF hits = {} THEN 0 ELSE CHOOSE i \in hits : \A j \in hits : i <= j

\* Vec::remove(idx)
Remove(subs, idx) == SubSeq(subs, 1, idx - 1) \o SubSeq(subs, idx + 1, Len(subs))

\* a subscribe that does not look for the function first
SubscribedTwice(subs, function) == Append(subs, function)

\* Observe::subscribe
Subscribed(subs, function) ==
    IF FindSubscriber(subs, function) = 0 THEN Append(subs, function) ELSE subs

\* an unsubscribe that fills the gap with the last entry
UnsubscribedSwap(subs, function) ==
    LET idx == FindSubscriber(subs, function)
    IN  IF idx = 0 THEN subs
        ELSE IF idx = Len(subs) THEN Remove(subs, idx)
        ELSE Remove([subs EXCEPT ![idx] = subs[Len(subs)]], Len(subs))

\* Observe::unsubscribe
Unsubscribed(subs, function) ==
    LET idx == FindSubscriber(subs, function)
    IN  IF idx # 0 THEN Remove(subs, idx) ELSE subs

\* the body of a subscriber that needs the context only
SimpleBody(sub, c, v) ==
    CASE sub = "inc"   -> [c EXCEPT !.other = @ + 1]
      [] sub = "store" -> [c EXCEPT !.seen = v]

\* the loop of Observe::set: each subscriber in turn, on the context; calls
\* lists the invocations made, in order
RECURSIVE Notify(_, _, _)
Notify(subs, acc, v) ==
    IF subs = <<>> THEN acc
    ELSE Notify(Tail(subs),
                [ctx   |-> SimpleBody(Head(subs), acc.ctx, v),
                 calls |-> Append(acc.calls, <<Head(subs), v>>)],
                v)

\* a set that leaves an equal value alone
ObserveSetIfChanged(val, subs, c, v) ==
    IF val = v THEN [value |-> val, ctx |-> c, calls |-> <<>>]
    ELSE LET done == Notify(subs, [ctx |-> c, calls |-> <<>>], v)
         IN  [value |-> v, ctx |-> done.ctx, calls |-> done.calls]

\* Observe::set: what it leaves in the cell and the context
ObserveSet(val, subs, c, v) ==
    LET done == Notify(subs, [ctx |-> c, calls |-> <<>>], v)
    IN  [value |-> v, ctx |-> done.ctx, calls |-> done.calls]

\* a compare_and_set that does not compare
CompareAndSetAlways(val, subs, c, v) == ObserveSet(val, subs, c, v)

\* Observe::compare_and_set
ObserveCompareAndSet(val, subs, c, v) ==
    IF val # v THEN ObserveSet(val, subs, c, v)
    ELSE [value |-> val, ctx |-> c, calls |-> <<>>]

\* a dependency_set call in progress: the cloned subscriber list, the index of
\* the next subscriber to call and the value it is called with; reg and inv
\* record the registry when the value was replaced and the calls made so far
Frame(subs, v) == [subs |-> subs, idx |-> 1, val |-> v, reg |-> subs, inv |-> <<>>]

\* a loop that walks the registry itself
WalkedLive(frame, registry) == registry

\* the list the loop of dependency_set walks: the clone, not the registry
Walked(frame, registry) == frame.subs

Top == stack[Len(stack)]
Idle == stack = <<>>

\* Observe::new(0), in a context or beside one, and no call made yet; beside
\* it, the tree Single::default()
ObsInit ==
    /\ embedded \in BOOLEAN
    /\ value = 0
    /\ subscribers = <<>>
    /\ ctx = [other |-> 0, seen |-> 0]
    /\ stack = <<>>
    /\ nops = 0
    /\ last = [op |-> "none", arg |-> 0]
    /\ pre = [value |-> 0, subscribers |-> <<>>, ctx |-> [other |-> 0, seen |-> 0]]
    /\ fired = <<>>
    /\ streak = 0
    /\ base = 0
    /\ since = [f \in Fns |-> 0]
    /\ stable = {}
    /\ config = Default
    /\ req = NoReq
    /\ call = NoCall
    /\ before = Default

Range(seq) == {seq[i] : i \in 1..Len(seq)}

Tally(count, calls) ==
    [f \in Fns |-> count[f] + Cardinality({i \in 1..Len(calls) : calls[i][1] = f})]

\* the owner of the cell makes the call op(arg), which invokes calls before any
\* other step is taken: the history of the call and of the streak it is part of
Begin(op, arg, calls) ==
    LET again == last = [op |-> op, arg |-> arg]
    IN  /\ Idle
        /\ nops < MaxOps
        /\ nops' = nops + 1
        /\ last' = [op |-> op, arg |-> arg]
        /\ pre' = [value |-> value, subscribers |-> subscribers, ctx |-> ctx]
        /\ fired' = calls
        /\ streak' = IF again THEN streak + 1 ELSE 1
        /\ base' = IF again THEN base ELSE value
        /\ since' = Tally(IF again THEN since ELSE [f \in Fns |-> 0], calls)
        /\ stable' = IF again THEN stable \cap Range(subscribers) ELSE Range(subscribers)

\* obs.subscribe(function)
Subscribe(function) ==
    /\ embedded \/ function \in SimpleFns
    /\ Begin("subscribe", function, <<>>)
    /\ subscribers' = Subscribed(subscribers, function)
    /\ UNCHANGED <<embedded, value, ctx, stack, treeVars>>

\* obs.unsubscribe(function)
Unsubscribe(function) ==
    /\ embedded \/ function \in SimpleFns
    /\ Begin("unsubscribe", function, <<>>)
    /\ subscribers' = Unsubscribed(subscribers, function)
    /\ UNCHANGED <<embedded, value, ctx, stack, treeVars>>

\* obs.set(v, &mut ctx)
DoObserveSet(v) ==
    /\ ~embedded
    /\ LET r == ObserveSet(value, subscribers, ctx, v)
       IN  /\ Begin("set", v, r.calls)
           /\ value' = r.value
           /\ ctx' = r.ctx
    /\ UNCHANGED <<embedded, subscribers, stack, treeVars>>

\* obs.compare_and_set(v, &mut ctx)
DoCompareAndSet(v) ==
    /\ ~embedded
    /\ LET r == ObserveCompareAndSet(value, subscribers, ctx, v)
       IN  /\ Begin("compare_and_set", v, r.calls)
           /\ value' = r.value
           /\ ctx' = r.ctx
    /\ UNCHANGED <<embedded, subscribers, stack, treeVars>>

\* a dependency_set that leaves an equal value alone
DependencySetIfChanged(val, subs, stk, v) ==
    IF val = v THEN [value |-> val, stack |-> stk]
    ELSE [value |-> v, stack |-> Append(stk, Frame(subs, v))]

\* a dependency_set that has not stored the value when its loop runs
DependencySetStoresLate(val, subs, stk, v) ==
    [value |-> val, stack |-> Append(stk, Frame(subs, v))]

\* Observe::dependency_set up to its loop: the value is replaced and the
\* subscriber list cloned
DependencySet(val, subs, stk, v) ==
    [value |-> v, stack |-> Append(stk, Frame(subs, v))]

\* a dependency_compare_and_set that does not compare
DependencyCompareAlways(val, subs, stk, v) == DependencySet(val, subs, stk, v)

\* Observe::dependency_compare_and_set
DependencyCompareAndSet(val, subs, stk, v) ==
    IF val # v THEN DependencySet(val, subs, stk, v)
    ELSE [value |-> val, stack |-> stk]

\* Observe::dependency_set(&mut main, |x| &mut x.obs, v)
DoDependencySet(v) ==
    /\ embedded
    /\ Begin("dependency_set", v, <<>>)
    /\ LET r == DependencySet(value, subscribers, stack, v)
       IN  /\ value' = r.value
           /\ stack' = r.stack
    /\ UNCHANGED <<embedded, subscribers, ctx, treeVars>>

\* Observe::dependency_compare_and_set(&mut main, |x| &mut x.obs, v)
DoDependencyCompareAndSet(v) ==
    /\ embedded
    /\ Begin("dependency_compare_and_set", v, <<>>)
    /\ LET r == DependencyCompareAndSet(value, subscribers, stack, v)
       IN  /\ value' = r.value
           /\ stack' = r.stack
    /\ UNCHANGED <<embedded, subscribers, ctx, treeVars>>

\* one turn of the loop of dependency_set: sub(modifier, value.clone())
Invoke ==
    /\ ~Idle
    /\ Top.idx <= Len(Walked(Top, subscribers))
    /\ LET sub == Walked(Top, subscribers)[Top.idx]
           v   == Top.val
           stk == [stack EXCEPT ![Len(stack)] =
                     [@ EXCEPT !.idx = @ + 1, !.inv = Append(@, sub)]]
           r   == CASE sub = "reset" /\ v # 0 ->
                         DependencySet(value, subscribers, stk, 0)
                    [] sub = "echo" ->
                         DependencyCompareAndSet(value, subscribers, stk, v)
                    [] OTHER -> [value |-> value, stack |-> stk]
       IN  /\ Len(r.stack) <= MaxDepth
           /\ fired' = Append(fired, <<sub, v>>)
           /\ since' = Tally(since, << <<sub, v>> >>)
           /\ ctx' = IF sub \in SimpleFns THEN SimpleBody(sub, ctx, v) ELSE ctx
           /\ subscribers' = CASE sub = "adder"   -> Subscribed(subscribers, "inc")
                               [] sub = "remover" -> Unsubscribed(subscribers, "inc")
                               [] OTHER           -> subscribers
           /\ value' = r.value
           /\ stack' = r.stack
    /\ UNCHANGED <<embedded, nops, last, pre, streak, base, stable, treeVars>>

\* the loop of dependency_set ends and the call returns
Return ==
    /\ ~Idle
    /\ Top.idx > Len(Walked(Top, subscribers))
    /\ stack' = SubSeq(stack, 1, Len(stack) - 1)
    /\ UNCHANGED <<embedded, value, subscribers, ctx, histVars, treeVars>>

ObsNext ==
    \/ \E function \in Fns : Subscribe(function)
    \/ \E function \in Fns : Unsubscribe(function)
    \/ \E v \in Values : DoObserveSet(v)
    \/ \E v \in Values : DoCompareAndSet(v)
    \/ \E v \in Values : DoDependencySet(v)
    \/ \E v \in Values : DoDependencyCompareAndSet(v)
    \/ Invoke
    \/ Return

\* Single::default() and no request yet; beside it, a cell nobody uses
TreeInit ==
    /\ config = Default
    /\ req = NoReq
    /\ call = NoCall
    /\ before = Default
    /\ embedded = FALSE
    /\ value = 0
    /\ subscribers = <<>>
    /\ ctx = [other |-> 0, seen |-> 0]
    /\ stack = <<>>
    /\ nops = 0
    /\ last = [op |-> "none", arg |-> 0]
    /\ pre = [value |-> 0, subscribers |-> <<>>, ctx |-> [other |-> 0, seen |-> 0]]
    /\ fired = <<>>
    /\ streak = 0
    /\ base = 0
    /\ since = [f \in Fns |-> 0]
    /\ stable = {}

\* the caller splits a dotted path and takes a payload string
Request(path, payload) ==
    /\ req = NoReq
    /\ req' = [path |-> path, payload |-> payload]
    /\ UNCHANGED <<config, call, before, obsVars>>

\* a check_set that goes through set
DoCheckSetApplies ==
    /\ req # NoReq
    /\ LET r == Set("Single", config, req.path, req.payload)
       IN  /\ call' = [op |-> "check_set", result |-> r.result]
           /\ config' = r.node
    /\ before' = config
    /\ UNCHANGED <<req, obsVars>>

\* Single::check_set(path, payload)
DoCheckSet ==
    /\ req # NoReq
    /\ call' = [op |-> "check_set", result |-> CheckSet("Single", req.path, req.payload)]
    /\ before' = config
    /\ UNCHANGED <<config, req, obsVars>>

\* x.set(path, payload)
DoSet ==
    /\ req # NoReq
    /\ LET r == Set("Single", config, req.path, req.payload)
       IN  /\ call' = [op |-> "set", result |-> r.result]
           /\ config' = r.node
    /\ before' = config
    /\ UNCHANGED <<req, obsVars>>

\* the request and the Result of its last call go out of scope
Drop ==
    /\ req # NoReq
    /\ req' = NoReq
    /\ call' = NoCall
    /\ before' = config
    /\ UNCHANGED <<config, obsVars>>

TreeNext ==
    \/ \E path \in Paths, payload \in Payloads : Request(path, payload)
    \/ DoCheckSet
    \/ DoSet
    \/ Drop

\* The tree and the cell share no state: each is checked under its own
\* specification, with the other left as it was constructed.
TreeSpec == TreeInit /\ [][TreeNext]_vars
ObsSpec == ObsInit /\ [][ObsNext]_vars

\* a call that has begun runs on: the loop takes its next turn and returns
\* when the clone is exhausted
ObsFairSpec == ObsInit /\ [][ObsNext]_vars /\ WF_vars(Invoke) /\ WF_vars(Return)

Init == ObsInit
Next == TreeNext \/ ObsNext
Spec == Init /\ [][Next]_vars

(***************************************************************************)
(* Properties of the tree.                                                 *)
(***************************************************************************)
\* the type of the node a path leads to from a node of type ty ("none" if
\* some segment names no field)
RECURSIVE TypeAt(_, _)
TypeAt(ty, path) ==
    IF path = <<>> THEN ty
    ELSE IF ty \notin Structs THEN "none"
    ELSE LET arm == MatchArm(ty, Head(path))
         IN  IF arm = 0 THEN "none" ELSE TypeAt(Fields(ty)[arm].y, Tail(path))

\* the value of the node a path leads to
RECURSIVE ValueAt(_, _)
ValueAt(node, path) ==
    IF path = <<>> THEN node ELSE ValueAt(node[Head(path)], Tail(path))

ReqType == TypeAt("Single", req.path)

\* C1: if check_set returns Ok for a request, then a set called next with the
\* same request returns Ok too, and afterwards the addressed leaf holds the
\* value the codec produces for the payload.
C1_CheckedSetSucceeds ==
    [][(call.op = "check_set" /\ call.result = Ok /\ call'.op = "set")
         => /\ call'.result = Ok
            /\ ValueAt(config', req.path) = FromStr(ReqType, req.payload).val]_vars

\* C2: a set that returns an error leaves every leaf of the tree, the addressed
\* one included, as it was before the call, whatever calls came earlier.
C2_FailedSetKeepsTree ==
    (call.op = "set" /\ call.result \in Errors) => config = before

\* a payload the codec rejects, sent to a leaf an earlier set has changed
C2_Witness ==
    /\ call.op = "set"
    /\ call.result = ValueParseError
    /\ ReqType \in BasicTypes
    /\ ValueAt(config, req.path) # ValueAt(Default, req.path)

\* C3: on a String leaf reached with an exhausted path, set succeeds for every
\* payload and leaves the payload itself in the leaf, and check_set succeeds
\* for every payload.
C3_StringSetIsAssignment ==
    (ReqType = "String" /\ call.op # "none")
        => /\ call.result = Ok
           /\ call.op = "set" => ValueAt(config, req.path) = req.payload

\* some proper prefix of the path leads to a leaf
OverLeaf(path) ==
    \E k \in 0..(Len(path) - 1) : TypeAt("Single", SubSeq(path, 1, k)) \in LeafTypes

\* C12: when a leaf (numeric, String or tuple) is reached with at least one
\* segment of the path left, check_set and set both return PathTooLong for
\* every payload, also for one the codec rejects, and the tree is as before.
C12_LeafRejectsLongerPath ==
    (call.op # "none" /\ OverLeaf(req.path))
        => /\ call.result = PathTooLong
           /\ config = before

\* a set that descends into the tuple leaf with a payload the codec rejects,
\* on a tree an earlier set has changed
C12_Witness ==
    /\ call.op = "set"
    /\ Len(req.path) = 2
    /\ req.path[1] = "pair"
    /\ ~FromStr(TupleType, req.payload).ok
    /\ call.result = PathTooLong
    /\ config # Default

\* some segment of the path names no field of the struct it is dispatched in
UnknownAt(path) ==
    \E k \in 0..(Len(path) - 1) :
        LET ty == TypeAt("Single", SubSeq(path, 1, k))
        IN  ty \in Structs /\ MatchArm(ty, path[k + 1]) = 0

\* C13: when the next segment of the path names no field of the struct that
\* dispatches it, at the root or below, check_set and set both return
\* PathNotFound whatever segments follow and whatever the payload, and the
\* tree is as before.
C13_UnknownFieldNotFound ==
    (call.op # "none" /\ UnknownAt(req.path))
        => /\ call.result = PathNotFound
           /\ config = before

\* a set whose second segment names no field of the nested struct
C13_Witness ==
    /\ call.op = "set"
    /\ Len(req.path) = 2
    /\ req.path[1] = "kek"
    /\ MatchArm("TopKek", req.path[2]) = 0
    /\ call.result = PathNotFound

\* C14: when the path ends at a struct, the root with the empty path or a
\* nested struct, check_set and set both return PathTooShort for every
\* payload, and the tree is as before.
C14_StructPathTooShort ==
    (call.op # "none" /\ ReqType \in Structs)
        => /\ call.result = PathTooShort
           /\ config = before

\* a set with the path [kek] on a tree whose leaf kek.nice was set earlier
C14_Witness ==
    /\ call.op = "set"
    /\ req.path = <<"kek">>
    /\ call.result = PathTooShort
    /\ config.kek.nice # Default.kek.nice

\* C15: check_set leaves the tree as it was, whatever it returns.
C15_CheckSetKeepsTree ==
    call.op = "check_set" => config = before

\* a check_set that accepts a payload the leaf does not hold, on a tree an
\* earlier set has changed
C15_Witness ==
    /\ call.op = "check_set"
    /\ call.result = Ok
    /\ ReqType \in BasicTypes
    /\ ValueAt(config, req.path) # FromStr(ReqType, req.payload).val
    /\ config # Default

\* the paths of the leaves below a node of type ty
RECURSIVE LeafPathsOf(_)
LeafPathsOf(ty) ==
    IF ty \in LeafTypes THEN {<<>>}
    ELSE UNION {{<<Fields(ty)[i].x>> \o p : p \in LeafPathsOf(Fields(ty)[i].y)} :
                  i \in 1..Len(Fields(ty))}

\* C18: a set that returns Ok was sent to one leaf, and every other leaf of
\* the tree holds the value it held before the call.
C18_SetChangesOneLeaf ==
    (call.op = "set" /\ call.result = Ok)
        => /\ req.path \in LeafPathsOf("Single")
           /\ \A q \in LeafPathsOf("Single") \ {req.path} :
                  ValueAt(config, q) = ValueAt(before, q)

\* a set that changes kek.nice on a tree whose leaf entry was set earlier
C18_Witness ==
    /\ call.op = "set"
    /\ call.result = Ok
    /\ req.path = <<"kek", "nice">>
    /\ config.kek.nice # before.kek.nice
    /\ config.entry # Default.entry

(***************************************************************************)
(* Properties of the cell.                                                 *)
(***************************************************************************)
\* one invocation of each function of subs, in the order of subs, with v
Expected(subs, v) == [i \in 1..Len(subs) |-> <<subs[i], v>>]

IsPrefix(a, b) == Len(a) <= Len(b) /\ \A i \in 1..Len(a) : a[i] = b[i]

Times(f) == Cardinality({i \in 1..Len(fired) : fired[i][1] = f})

\* the cell and the context are as the last call found them, nothing invoked
NoOp ==
    /\ value = pre.value
    /\ subscribers = pre.subscribers
    /\ ctx = pre.ctx
    /\ fired = <<>>
    /\ Idle

\* the last call replaced the value and invoked the subscribers it found
\* registered, each once, in registration order, with the context and the value
Notified ==
    /\ value = last.arg
    /\ subscribers = pre.subscribers
    /\ fired = Expected(pre.subscribers, last.arg)
    /\ ctx.other = pre.ctx.other + (IF "inc" \in Range(pre.subscribers) THEN 1 ELSE 0)
    /\ ctx.seen = IF "store" \in Range(pre.subscribers) THEN last.arg ELSE pre.ctx.seen

\* no subscriber that calls dependency_set itself has run in the last call, or
\* in the streak
Untriggered == \A i \in 1..Len(fired) : fired[i][1] # "reset"
UntriggeredStreak == since["reset"] = 0

\* C4: every set(v, ctx), whether or not v is the stored value, stores v and
\* invokes each registered subscriber exactly once, in registration order,
\* with ctx and v; get() is v when it returns, and k sets in a row invoke each
\* subscriber k times.
C4_SetNotifiesAll ==
    last.op = "set"
        => /\ Notified
           /\ \A f \in Fns :
                since[f] = IF f \in Range(subscribers) THEN streak ELSE 0

\* a second set in a row, of the value already stored, with two subscribers
C4_Witness ==
    /\ last.op = "set"
    /\ streak >= 2
    /\ pre.value = last.arg
    /\ Len(subscribers) = 2

\* C5: the registry never holds a function twice, whatever calls were made;
\* subscribing one function k times to a new cell leaves one entry, and a set
\* invokes a registered function once.
C5_NoDuplicateSubscribers ==
    /\ \A i, j \in 1..Len(subscribers) : subscribers[i] = subscribers[j] => i = j
    /\ (last.op = "subscribe" /\ nops = streak) => subscribers = <<last.arg>>
    /\ last.op = "set" => \A f \in Range(subscribers) : Times(f) = 1

\* one function subscribed twice in a row to a new cell
C5_Witness ==
    /\ last.op = "subscribe"
    /\ nops = streak
    /\ streak >= 2

\* C6: compare_and_set(v, ctx) changes nothing and invokes nobody when v is
\* the stored value, and otherwise does what set(v, ctx) does; k calls in a row
\* with one v invoke each subscriber at most once, and exactly once when v
\* differs from the value stored before the first of them.
C6_CompareAndSetGated ==
    last.op = "compare_and_set"
        => /\ IF pre.value = last.arg THEN NoOp ELSE Notified
           /\ \A f \in Fns :
                since[f] = IF base # last.arg /\ f \in Range(subscribers) THEN 1 ELSE 0

\* a second compare_and_set in a row of a value that was new at the first
C6_Witness ==
    /\ last.op = "compare_and_set"
    /\ streak >= 2
    /\ base # last.arg
    /\ subscribers # <<>>

\* C7: a dependency_set call invokes the functions that were registered when
\* it replaced the value, in that order, whatever its subscribers subscribe
\* or unsubscribe meanwhile; what they change holds for later calls.
C7_DispatchWalksSnapshot ==
    /\ \A k \in 1..Len(stack) :
          /\ IsPrefix(stack[k].inv, stack[k].reg)
          /\ k = Len(stack) /\ stack[k].idx > Len(Walked(stack[k], subscribers))
                => stack[k].inv = stack[k].reg
    /\ (last.op = "dependency_set" /\ Idle /\ Untriggered)
          => fired = Expected(pre.subscribers, last.arg)

\* a dispatch has made its last invocation and the registry is no longer what
\* it was when the dispatch began
C7_Witness ==
    /\ ~Idle
    /\ Top.idx > Len(Top.reg)
    /\ Top.inv = Top.reg
    /\ subscribers # Top.reg

\* the functions the last call has invoked
Invoked == {fired[i][1] : i \in 1..Len(fired)}

\* the calls that notify
Setters == {"set", "compare_and_set", "dependency_set", "dependency_compare_and_set"}

\* no function that calls dependency_set is registered or waits in a clone
Quiet ==
    /\ "reset" \notin Range(subscribers)
    /\ \A k \in 1..Len(stack) : "reset" \notin Range(stack[k].subs)

\* C11 as stated: whatever the subscribers do with the context, a set,
\* compare_and_set, dependency_set or dependency_compare_and_set invokes at most
\* as many subscribers as were registered when it began.
C11_InvocationsBounded ==
    last.op \in Setters => Len(fired) <= Len(pre.subscribers)

\* C11: set and compare_and_set return after one pass over the registry.  As
\* long as no subscriber of a dependency_set or dependency_compare_and_set has
\* called dependency_set itself, the call is one loop over its clone of the
\* registry and has made one invocation per turn; and once it runs with no
\* such subscriber registered, it returns.
C11_QuietCallBounded ==
    /\ [](last.op \in {"set", "compare_and_set"}
            => Idle /\ Len(fired) <= Len(pre.subscribers))
    /\ []((last.op \in {"dependency_set", "dependency_compare_and_set"} /\ Untriggered)
            => /\ Len(stack) <= 1
               /\ Len(fired) <= Len(pre.subscribers)
               /\ ~Idle => /\ Top.subs = pre.subscribers
                           /\ Len(fired) = Top.idx - 1)
    /\ (~Idle /\ Quiet) ~> Idle

\* a dependency_set has walked a registry of three that holds echo and adder
C11_Witness ==
    /\ last.op = "dependency_set"
    /\ Idle
    /\ Len(fired) = 3
    /\ {"echo", "adder"} \subseteq Invoked
    /\ Untriggered

\* C16: unsubscribe(f) takes the one entry equal to f out of the registry, if
\* there is one, and keeps the other entries in their order; it invokes
\* nobody and leaves the value and the context alone.  A function that is not
\* registered when a set begins is not invoked by it.
C16_UnsubscribeRemovesOne ==
    /\ last.op = "unsubscribe"
          => LET Kept(g) == g # last.arg
             IN  /\ subscribers = SelectSeq(pre.subscribers, Kept)
                 /\ Len(subscribers) >= Len(pre.subscribers) - 1
                 /\ value = pre.value
                 /\ ctx = pre.ctx
                 /\ fired = <<>>
                 /\ Idle
    /\ last.op \in {"set", "compare_and_set"}
          => Invoked \subseteq Range(pre.subscribers)
    /\ (last.op \in {"dependency_set", "dependency_compare_and_set"} /\ Untriggered)
          => Invoked \subseteq Range(pre.subscribers)

\* the first of three registered functions has been unsubscribed from a cell
\* whose value is no longer the initial one
C16_Witness ==
    /\ last.op = "unsubscribe"
    /\ Len(pre.subscribers) = 3
    /\ pre.subscribers[1] = last.arg
    /\ Len(subscribers) = 2
    /\ value # 0

\* the value the last call passed to f when it invoked f last
LastArg(f) ==
    LET at == {i \in 1..Len(fired) : fired[i][1] = f}
    IN  fired[CHOOSE i \in at : \A j \in at : j <= i][2]

\* C17: when a set or a dependency_set made by the owner of the cell has
\* returned, every subscriber it invoked was invoked last with the value get()
\* returns, whatever the subscribers did with the context.
C17_ObserversUpToDate ==
    (last.op \in {"set", "dependency_set"} /\ Idle)
        => \A f \in Invoked : LastArg(f) = value

\* the loop is about to invoke echo, and the cell holds the value echo will be
\* given
EchoTurn ==
    /\ ~Idle
    /\ Top.idx <= Len(Top.subs)
    /\ Top.subs[Top.idx] = "echo"
    /\ value = Top.val

\* C19: dependency_set has stored the value when it invokes a subscriber, so a
\* subscriber that calls dependency_compare_and_set with the value it was
\* given starts no call inside the call and changes nothing; and a
\* dependency_compare_and_set whose subscribers re-enter the cell in this way
\* only is one dispatch, at the end of which each subscriber registered when
\* it began has been invoked once, with the new value.
C19_EchoStartsNoDispatch ==
    /\ [][EchoTurn => /\ value' = value
                      /\ Len(stack') = Len(stack)
                      /\ subscribers' = subscribers
                      /\ ctx' = ctx]_vars
    /\ []((last.op = "dependency_compare_and_set" /\ "reset" \notin Range(pre.subscribers))
            => /\ Len(stack) <= 1
               /\ value = last.arg
               /\ IsPrefix(fired, Expected(pre.subscribers, last.arg))
               /\ Idle => fired = IF pre.value = last.arg THEN <<>>
                                  ELSE Expected(pre.subscribers, last.arg))

\* a dependency_compare_and_set that changed the value has returned after one
\* invocation of each of its subscribers, echo among them
C19_Witness ==
    /\ last.op = "dependency_compare_and_set"
    /\ Idle
    /\ pre.value # last.arg
    /\ "echo" \in Invoked
    /\ Len(fired) >= 2
    /\ fired = Expected(pre.subscribers, last.arg)

\* C8: with a cell created with 0 and the one subscriber inc, after count >= 1
\* calls dependency_compare_and_set(ctx, accessor, v) in a row the counter is
\* 1, for every v.
C8_CounterIsOne ==
    (/\ last.op = "dependency_compare_and_set"
     /\ nops = streak + 1
     /\ subscribers = <<"inc">>
     /\ Idle)
        => ctx.other = 1

\* the dependency_compare_and_set part of C9 that holds of every subscriber
C9_Gate ==
    last.op = "dependency_compare_and_set"
        => /\ pre.value = last.arg => NoOp
           /\ pre.value # last.arg /\ ~Idle
                => stack[1].reg = pre.subscribers /\ stack[1].val = last.arg
           /\ pre.value # last.arg /\ Idle /\ Untriggered
                => /\ value = last.arg
                   /\ fired = Expected(pre.subscribers, last.arg)

\* C9 as stated: dependency_compare_and_set(ctx, accessor, v) changes nothing
\* and invokes nobody when v is the value of the cell, and otherwise does what
\* dependency_set does; N calls in a row with one v invoke each subscriber at
\* most once.
C9_AtMostOnceAlways ==
    /\ C9_Gate
    /\ last.op = "dependency_compare_and_set" => \A f \in Fns : since[f] <= 1

\* C9 amended: the same, with at most one invocation of each subscriber in N
\* calls for subscribers that do not call dependency_set on the cell.
C9_AtMostOnceUntriggered ==
    /\ C9_Gate
    /\ (last.op = "dependency_compare_and_set" /\ UntriggeredStreak)
          => \A f \in Fns : since[f] <= 1

\* a second dependency_compare_and_set in a row, the first of which notified
C9_Witness ==
    /\ last.op = "dependency_compare_and_set"
    /\ streak >= 2
    /\ Idle
    /\ UntriggeredStreak
    /\ since["inc"] = 1

\* C10: every dependency_set(ctx, accessor, v), whether or not v is the stored
\* value, stores v and invokes each registered subscriber exactly once with
\* the context and v; N calls in a row invoke each subscriber N times, when
\* no subscriber calls dependency_set on the cell itself.
C10_DependencySetNotifiesAll ==
    /\ \A k \in 1..Len(stack) :
          /\ IsPrefix(stack[k].inv, stack[k].reg)
          /\ Len(stack[k].inv) = stack[k].idx - 1
          /\ \A i, j \in 1..Len(stack[k].reg) :
                stack[k].reg[i] = stack[k].reg[j] => i = j
    /\ (last.op = "dependency_set" /\ ~Idle)
          => stack[1].reg = pre.subscribers /\ stack[1].val = last.arg
    /\ (last.op = "dependency_set" /\ Idle /\ Untriggered)
          => /\ value = last.arg
             /\ fired = Expected(pre.subscribers, last.arg)
             /\ "store" \in Range(pre.subscribers) => ctx.seen = last.arg
    /\ (last.op = "dependency_set" /\ Idle /\ UntriggeredStreak)
          => \A f \in stable : since[f] = streak

\* a second dependency_set in a row, of the value already stored, has returned
C10_Witness ==
    /\ last.op = "dependency_set"
    /\ streak >= 2
    /\ Idle
    /\ UntriggeredStreak
    /\ pre.value = last.arg
    /\ "inc" \in stable

====
